---- MODULE Spec2Model ----
(***************************************************************************)
(* Shipment-email extraction pipeline (extract.py, utils.py, schemas.py).  *)
(*                                                                         *)
(* Text is a sequence of one-character strings, so that the regular        *)
(* expressions of utils.py are modelled position by position.  Python      *)
(* values are tagged records: None, str, float, bool and list.  A float is *)
(* the exact decimal m * 10^(-e).                                          *)
(***************************************************************************)
EXTENDS Integers, Sequences, FiniteSets, TLC

VARIABLES
    mock,        \* main: the --mock flag
    emails,      \* main: the parsed emails_input.json
    pos,         \* main: number of emails the loop has consumed
    outputs,     \* main: the outputs list
    llm_log,     \* main: what call_llm returned for each consumed email
    pc,          \* main: "loop", "done" (output.json written) or "aborted"
    written,     \* main: the content of output.json
    ref,         \* build_port_index: the reference list
    ref_pos,     \* build_port_index: number of entries consumed
    name_to_code,\* build_port_index: ordered dict, as a sequence of <<key, code>>
    code_to_name,\* build_port_index: ordered dict, as a sequence of <<code, name>>
    email,       \* rule_extract: the email under extraction
    rec,         \* rule_extract: the returned record
    call         \* the last direct call of a pure function, with its result

vars == <<mock, emails, pos, outputs, llm_log, pc, written,
          ref, ref_pos, name_to_code, code_to_name, email, rec, call>>

mainVars == <<mock, emails, pos, outputs, llm_log, pc, written>>
indexVars == <<ref, ref_pos, name_to_code, code_to_name>>
ruleVars == <<email, rec, call>>

------------------------------------------------------------------------------
(* Python values *)

None == [t |-> "null"]
Str(s) == [t |-> "str", s |-> s]
Num(m, e) == [t |-> "num", m |-> m, e |-> e]
Bool(b) == [t |-> "bool", b |-> b]
List == [t |-> "list"]

\* Python truthiness, as used by "x or y", "if not text" and "if llm_resp".
Truthy(v) ==
    CASE v.t = "null" -> FALSE
      [] v.t = "str" -> Len(v.s) > 0
      [] v.t = "num" -> v.m # 0
      [] v.t = "bool" -> v.b
      [] OTHER -> FALSE

\* a or b
Or(a, b) == IF Truthy(a) THEN a ELSE b

\* the element of a one-element set
Only(S) == CHOOSE x \in S : TRUE

------------------------------------------------------------------------------
(* Characters and substrings *)

LowerAlpha == <<"a","b","c","d","e","f","g","h","i","j","k","l","m",
                "n","o","p","q","r","s","t","u","v","w","x","y","z">>
UpperAlpha == <<"A","B","C","D","E","F","G","H","I","J","K","L","M",
                "N","O","P","Q","R","S","T","U","V","W","X","Y","Z">>
Digits == <<"0","1","2","3","4","5","6","7","8","9">>

IsLower(c) == \E i \in 1..26 : LowerAlpha[i] = c
IsUpper(c) == \E i \in 1..26 : UpperAlpha[i] = c
IsAlpha(c) == IsLower(c) \/ IsUpper(c)
IsDigit(c) == \E i \in 1..10 : Digits[i] = c
IsSpace(c) == c \in {" ", "\n", "\t"}
IsWordChar(c) == IsAlpha(c) \/ IsDigit(c) \/ c = "_"

UpperChar(c) ==
    IF IsLower(c) THEN UpperAlpha[CHOOSE i \in 1..26 : LowerAlpha[i] = c] ELSE c
LowerChar(c) ==
    IF IsUpper(c) THEN LowerAlpha[CHOOSE i \in 1..26 : UpperAlpha[i] = c] ELSE c

\* str.upper() and str.lower()
Upper(s) == [i \in 1..Len(s) |-> UpperChar(s[i])]
Lower(s) == [i \in 1..Len(s) |-> LowerChar(s[i])]

\* pat occurs in s starting at position i
OccursAt(s, pat, i) ==
    /\ i >= 1
    /\ i + Len(pat) - 1 <= Len(s)
    /\ \A k \in 1..Len(pat) : s[i + k - 1] = pat[k]

\* "pat in s"
Contains(s, pat) == \E i \in 1..(Len(s) + 1) : OccursAt(s, pat, i)

\* the regex assertion \b between positions i-1 and i
WordBoundary(s, i) ==
    (i > 1 /\ i - 1 <= Len(s) /\ IsWordChar(s[i - 1]))
        # (i >= 1 /\ i <= Len(s) /\ IsWordChar(s[i]))

\* first position >= i whose character does not satisfy the class, for the
\* greedy runs \d+, \s* and [A-Za-z]{2,}
RECURSIVE DigitRunEnd(_, _)
DigitRunEnd(s, i) ==
    IF i <= Len(s) /\ IsDigit(s[i]) THEN DigitRunEnd(s, i + 1) ELSE i
RECURSIVE SpaceRunEnd(_, _)
SpaceRunEnd(s, i) ==
    IF i <= Len(s) /\ IsSpace(s[i]) THEN SpaceRunEnd(s, i + 1) ELSE i
RECURSIVE AlphaRunEnd(_, _)
AlphaRunEnd(s, i) ==
    IF i <= Len(s) /\ IsAlpha(s[i]) THEN AlphaRunEnd(s, i + 1) ELSE i

DigitValue(c) == (CHOOSE i \in 1..10 : Digits[i] = c) - 1

\* int() of a string of digits
RECURSIVE DigitsToNat(_)
DigitsToNat(s) ==
    IF Len(s) = 0 THEN 0
    ELSE 10 * DigitsToNat(SubSeq(s, 1, Len(s) - 1)) + DigitValue(s[Len(s)])

RECURSIVE Pow10(_)
Pow10(n) == IF n = 0 THEN 1 ELSE 10 * Pow10(n - 1)

------------------------------------------------------------------------------
(* utils.py: field parsers *)

VALID_INCOTERMS ==
    { <<"F","O","B">>, <<"C","I","F">>, <<"C","F","R">>, <<"E","X","W">>,
      <<"D","D","P">>, <<"D","A","P">>, <<"F","C","A">>, <<"C","P","T">>,
      <<"C","I","P">>, <<"D","P","U">> }

FOB == <<"F","O","B">>

\* re.search(r"\b" + inc + r"\b", txt)
SearchWord(txt, w) ==
    \E i \in 1..Len(txt) :
        /\ OccursAt(txt, w, i)
        /\ WordBoundary(txt, i)
        /\ WordBoundary(txt, i + Len(w))

parse_incoterm(text) ==
    IF Len(text) = 0 THEN None
    ELSE LET txt == Upper(text)
             found == { inc \in VALID_INCOTERMS : SearchWord(txt, inc) }
         IN  IF found = {} THEN None
             ELSE IF Cardinality(found) > 1 THEN Str(FOB)
             ELSE Str(CHOOSE inc \in found : TRUE)

\* One attempt of  (\d+(?:[\.,]\d+)?)\s*(?:u1|u2|...)\b  at start position i,
\* case-insensitively.  The runs are greedy and nothing after a run can match
\* a character of the run, so the attempt is deterministic.  The result is
\* the captured number, or None.
NumberUnitAt(text, i, units) ==
    IF ~(i <= Len(text) /\ IsDigit(text[i])) THEN None
    ELSE LET low == Lower(text)
             j == DigitRunEnd(text, i)
             hasFrac == /\ j + 1 <= Len(text)
                        /\ text[j] \in {".", ","}
                        /\ IsDigit(text[j + 1])
             k == IF hasFrac THEN DigitRunEnd(text, j + 1) ELSE j
             p == SpaceRunEnd(text, k)
             ok == \E u \in units :
                       OccursAt(low, u, p) /\ WordBoundary(text, p + Len(u))
             intPart == SubSeq(text, i, j - 1)
             fracPart == IF hasFrac THEN SubSeq(text, j + 1, k - 1) ELSE <<>>
         IN  IF ok THEN Num(DigitsToNat(intPart \o fracPart), Len(fracPart))
             ELSE None

\* re.search: the attempt at the leftmost start position that matches;
\* float(m.group(1).replace(',', '.'))
SearchNumberUnit(text, units) ==
    LET starts == { i \in 1..Len(text) : NumberUnitAt(text, i, units) # None }
    IN  IF starts = {} THEN None
        ELSE NumberUnitAt(text, CHOOSE i \in starts : \A k \in starts : i <= k,
                          units)

CbmUnits ==
    { <<"c","b","m">>, <<"m","3">>,
      <<"c","u","b","i","c"," ","m","e","t","e","r","s">>,
      <<"c","u","b","i","c"," ","m","e","t","r","e","s">> }

parse_cbm(text) ==
    IF Len(text) = 0 THEN None
    ELSE SearchNumberUnit(text, CbmUnits)

KgUnits == { <<"k","g">>, <<"k","g","s">> }
TonneUnits == { <<"t","o","n","n","e">>, <<"t","o","n","n","e","s">>,
                <<"t">>, <<"m","t">> }
LbUnits == { <<"l","b">>, <<"l","b","s">> }
ZeroUnits == { <<"k","g">>, <<"k","g","s">>, <<"l","b">>, <<"l","b","s">>,
               <<"t","o","n","n","e">>, <<"t">>, <<"m","t">> }

\* re.search(r"\b0\s*(?:kg|kgs|lb|lbs|tonne|t|mt)\b", text), case-sensitive
SearchExplicitZero(text) ==
    \E i \in 1..Len(text) :
        /\ text[i] = "0"
        /\ WordBoundary(text, i)
        /\ \E p \in (i + 1)..SpaceRunEnd(text, i + 1) :
               \E u \in ZeroUnits :
                   OccursAt(text, u, p) /\ WordBoundary(text, p + Len(u))

\* float * 1000.0
Times1000(v) == Num(v.m * 1000, v.e)
\* float * 0.453592
TimesLb(v) == Num(v.m * 453592, v.e + 6)

parse_weight_kg(text) ==
    IF Len(text) = 0 THEN None
    ELSE LET kg == SearchNumberUnit(text, KgUnits)
             tn == SearchNumberUnit(text, TonneUnits)
             lb == SearchNumberUnit(text, LbUnits)
         IN  IF kg # None THEN kg
             ELSE IF tn # None THEN Times1000(tn)
             ELSE IF lb # None THEN TimesLb(lb)
             ELSE IF SearchExplicitZero(text) THEN Num(0, 0)
             ELSE None

negatives ==
    << <<"n","o","n","-","h","a","z","a","r","d","o","u","s">>,
       <<"n","o","n"," ","h","a","z","a","r","d","o","u","s">>,
       <<"n","o","n","-","d","g">>,
       <<"n","o","t"," ","d","a","n","g","e","r","o","u","s">>,
       <<"n","o","n"," ","d","g">> >>

\* the keywords that are plain substrings as regular expressions
keywords ==
    << <<"d","g">>, <<"d","a","n","g","e","r","o","u","s">>,
       <<"h","a","z","a","r","d","o","u","s">>,
       <<"i","m","o">>, <<"i","m","d","g">> >>

\* re.search(r"class \d", txt)
SearchClassDigit(txt) ==
    \E i \in 1..Len(txt) :
        /\ OccursAt(txt, <<"c","l","a","s","s"," ">>, i)
        /\ i + 6 <= Len(txt)
        /\ IsDigit(txt[i + 6])

\* positive keywords consulted before the negation phrases
detect_dangerous_KeywordsFirst(text) ==
    IF Len(text) = 0 THEN FALSE
    ELSE LET txt == Lower(text)
         IN  IF \/ \E k \in 1..Len(keywords) : Contains(txt, keywords[k])
                \/ SearchClassDigit(txt)
             THEN TRUE
             ELSE FALSE

detect_dangerous(text) ==
    IF Len(text) = 0 THEN FALSE
    ELSE LET txt == Lower(text)
         IN  IF \E n \in 1..Len(negatives) : Contains(txt, negatives[n])
             THEN FALSE
             ELSE \/ \E k \in 1..Len(keywords) : Contains(txt, keywords[k])
                  \/ SearchClassDigit(txt)

IN_ == <<"I","N">>

\* str.startswith
StartsWith(s, prefix) == OccursAt(s, prefix, 1)

pl_sea_import_lcl ==
    Str(<<"p","l","_","s","e","a","_","i","m","p","o","r",
        "t","_","l","c","l">>)
pl_sea_export_lcl ==
    Str(<<"p","l","_","s","e","a","_","e","x","p","o","r",
        "t","_","l","c","l">>)

\* the origin consulted before the destination
choose_product_line_OriginFirst(origin_code, dest_code) ==
    IF Truthy(origin_code) /\ StartsWith(Upper(origin_code.s), IN_)
    THEN pl_sea_export_lcl
    ELSE IF Truthy(dest_code) /\ StartsWith(Upper(dest_code.s), IN_)
    THEN pl_sea_import_lcl
    ELSE None

choose_product_line(origin_code, dest_code) ==
    IF Truthy(dest_code) /\ StartsWith(Upper(dest_code.s), IN_)
    THEN pl_sea_import_lcl
    ELSE IF Truthy(origin_code) /\ StartsWith(Upper(origin_code.s), IN_)
    THEN pl_sea_export_lcl
    ELSE None

------------------------------------------------------------------------------
(* Python dicts keep insertion order: a dict is a sequence of <<key, value>> *)

DictHas(d, k) == \E i \in 1..Len(d) : d[i][1] = k
DictGet(d, k) == d[CHOOSE i \in 1..Len(d) : d[i][1] = k][2]
\* d[k] = v
DictSet(d, k, v) ==
    IF DictHas(d, k)
    THEN [i \in 1..Len(d) |-> IF d[i][1] = k THEN <<k, v>> ELSE d[i]]
    ELSE Append(d, <<k, v>>)
\* d.setdefault(k, v)
DictSetDefault(d, k, v) == IF DictHas(d, k) THEN d ELSE Append(d, <<k, v>>)

------------------------------------------------------------------------------
(* utils.py: build_port_index *)

\* the character class [\s,-/]: whitespace and the range from "," to "/"
IsNameDelim(c) == IsSpace(c) \/ c \in {",", "-", ".", "/"}

RECURSIVE NameRunEnd(_, _)
NameRunEnd(s, i) ==
    IF i <= Len(s) /\ ~IsNameDelim(s[i]) THEN NameRunEnd(s, i + 1) ELSE i

\* [tok for tok in re.split(r"[\s,-/]+", s) if len(tok) >= 2], from position i
RECURSIVE SplitTokens(_, _)
SplitTokens(s, i) ==
    IF i > Len(s) THEN <<>>
    ELSE IF IsNameDelim(s[i]) THEN SplitTokens(s, i + 1)
    ELSE LET j == NameRunEnd(s, i)
         IN  (IF j - i >= 2 THEN <<SubSeq(s, i, j - 1)>> ELSE <<>>)
                 \o SplitTokens(s, j)

\* name_to_code.setdefault(tok, code) for each token in turn
RECURSIVE AddTokens(_, _, _)
AddTokens(n2c, toks, code) ==
    IF toks = <<>> THEN n2c
    ELSE AddTokens(DictSetDefault(n2c, Head(toks), code), Tail(toks), code)

\* registration of the full lower-cased name
AddFullName(n2c, name, code) == DictSet(n2c, name, code)

\* "if not code or not name: continue"
EntrySkipped(entry) == ~Truthy(entry.code) \/ ~Truthy(entry.name)

\* one iteration of the loop over the reference list
IndexEntry(idx, entry) ==
    IF EntrySkipped(entry) THEN idx
    ELSE LET low == Lower(entry.name.s)
         IN  [ c2n |-> DictSet(idx.c2n, entry.code.s, entry.name.s),
               n2c |-> AddTokens(AddFullName(idx.n2c, low, entry.code.s),
                                 SplitTokens(low, 1), entry.code.s) ]

EmptyIndex == [n2c |-> <<>>, c2n |-> <<>>]

RECURSIVE IndexFrom(_, _)
IndexFrom(idx, r) ==
    IF r = <<>> THEN idx ELSE IndexFrom(IndexEntry(idx, Head(r)), Tail(r))

build_port_index(r) == IndexFrom(EmptyIndex, r)

------------------------------------------------------------------------------
(* utils.py: fuzzy_find_port and find_ports_in_text *)

Max(a, b) == IF a >= b THEN a ELSE b

\* one row of the longest-common-subsequence table: cur[j + 1] is the
\* length for the prefix of a ending with c and the first j characters of b
RECURSIVE LcsRow(_, _, _, _)
LcsRow(prev, c, b, cur) ==
    IF Len(cur) = Len(b) + 1 THEN cur
    ELSE LET j == Len(cur)
         IN  LcsRow(prev, c, b,
                    Append(cur, IF c = b[j] THEN prev[j] + 1
                                ELSE Max(prev[j + 1], cur[j])))
RECURSIVE LcsRows(_, _, _, _)
LcsRows(a, i, b, prev) ==
    IF i > Len(a) THEN prev[Len(b) + 1]
    ELSE LcsRows(a, i + 1, b, LcsRow(prev, a[i], b, <<0>>))
LCS(a, b) == LcsRows(a, 1, b, [j \in 1..(Len(b) + 1) |-> 0])

\* fuzz.ratio in thousandths: the normalized indel similarity
Ratio(a, b) ==
    IF Len(a) + Len(b) = 0 THEN 100000
    ELSE (200000 * LCS(a, b)) \div (Len(a) + Len(b))

\* fuzz.partial_ratio in thousandths: the shorter string against the windows
\* of its length in the longer one
PartialRatio(a, b) ==
    LET short == IF Len(a) <= Len(b) THEN a ELSE b
        long == IF Len(a) <= Len(b) THEN b ELSE a
        scores == { Ratio(short, SubSeq(long, w, w + Len(short) - 1)) :
                        w \in 1..(Len(long) - Len(short) + 1) }
    IN  CHOOSE x \in scores : \A y \in scores : x >= y

\* fuzz.WRatio in thousandths, by its ratio and partial_ratio terms: the plain
\* ratio when the lengths are within a factor 1.5, else the better of it and
\* the partial ratio scaled by 0.9 (0.6 when the lengths differ by more
\* than 8x)
WRatio(a, b) ==
    IF Len(a) = 0 \/ Len(b) = 0 THEN 0
    ELSE LET lmax == Max(Len(a), Len(b))
             lmin == IF Len(a) <= Len(b) THEN Len(a) ELSE Len(b)
             full == Ratio(a, b)
             part == PartialRatio(a, b)
         IN  IF 2 * lmax < 3 * lmin THEN full
             ELSE IF lmax <= 8 * lmin THEN Max(full, (part * 9) \div 10)
             ELSE Max(full, (part * 6) \div 10)

\* the scorer applied to every choice, in the order of the dict's keys
RECURSIVE Scores(_, _)
Scores(query, choices) ==
    IF choices = <<>> THEN <<>>
    ELSE <<WRatio(query, Head(choices)[1])>> \o Scores(query, Tail(choices))

\* process.extractOne: the index of the best-scoring choice, the first on ties
ExtractOne(scores) ==
    CHOOSE i \in 1..Len(scores) :
        /\ \A k \in 1..Len(scores) : scores[i] >= scores[k]
        /\ \A k \in 1..(i - 1) : scores[k] < scores[i]

\* fuzzy_find_port(text, name_index, threshold): the code, or None
fuzzy_find_port(text, name_index, threshold) ==
    IF Len(text) = 0 \/ Len(name_index) = 0 THEN None
    ELSE LET query == Lower(text)
             scores == Scores(query, name_index)
             best == ExtractOne(scores)
         IN  IF scores[best] >= threshold * 1000
             THEN Str(name_index[best][2])
             ELSE None

\* end of the match of (?:\s+[A-Za-z]{2,})* attempted at position p
RECURSIVE PhraseEnd(_, _)
PhraseEnd(s, p) ==
    LET w == SpaceRunEnd(s, p)
        a == AlphaRunEnd(s, w)
    IN  IF w > p /\ a - w >= 2 THEN PhraseEnd(s, a) ELSE p

\* re.findall(r"[A-Za-z]{2,}(?:\s+[A-Za-z]{2,})*", s) from position i
RECURSIVE FindPhrases(_, _)
FindPhrases(s, i) ==
    IF i > Len(s) THEN <<>>
    ELSE LET a == AlphaRunEnd(s, i)
         IN  IF a - i >= 2
             THEN LET e == PhraseEnd(s, a)
                  IN  <<SubSeq(s, i, e - 1)>> \o FindPhrases(s, e)
             ELSE FindPhrases(s, Max(a, i + 1))

\* sorted(tokens, key=lambda s: -len(s)): stable, longest first
RECURSIVE InsertByLen(_, _)
InsertByLen(sorted, t) ==
    IF sorted = <<>> THEN <<t>>
    ELSE IF Len(Head(sorted)) >= Len(t)
    THEN <<Head(sorted)>> \o InsertByLen(Tail(sorted), t)
    ELSE <<t>> \o sorted
RECURSIVE SortLongestFirst(_)
SortLongestFirst(toks) ==
    IF toks = <<>> THEN <<>>
    ELSE InsertByLen(SortLongestFirst(SubSeq(toks, 1, Len(toks) - 1)),
                     toks[Len(toks)])

InSeq(x, s) == \E i \in 1..Len(s) : s[i] = x

\* the loop of find_ports_in_text over the sorted candidates
RECURSIVE CollectPorts(_, _, _)
CollectPorts(cands, name_index, found) ==
    IF cands = <<>> THEN found
    ELSE LET t == Head(cands)
             res == fuzzy_find_port(t, name_index, 75)
             found2 == IF res # None /\ ~InSeq(res.s, found)
                       THEN Append(found, res.s) ELSE found
         IN  CollectPorts(Tail(cands), name_index, found2)

find_ports_in_text(text, name_index) ==
    LET tokens == FindPhrases(text, 1)
        sorted == SortLongestFirst(tokens)
    IN  CollectPorts(sorted, name_index, <<>>)

------------------------------------------------------------------------------
(* extract.py: rule_extract *)

\* email.get(key, default)
Get(d, key, default) == IF key \in DOMAIN d THEN d[key] ELSE default

\* subj + "\n" + body raises TypeError unless both are strings
rule_extract_raises(e) ==
    \/ Get(e, "subject", Str(<<>>)).t # "str"
    \/ Get(e, "body", Str(<<>>)).t # "str"

\* a per-port fallback: the subject's codes fill what the body leaves open
ChoosePorts_PerPort(body_ports, subj_ports) ==
    body_ports \o subj_ports

\* ports = body_ports or subj_ports
ChoosePorts(body_ports, subj_ports) ==
    IF Len(body_ports) > 0 THEN body_ports ELSE subj_ports

\* the subject consulted before the body
ChooseIncoterm_SubjectFirst(body, subj) ==
    LET b == parse_incoterm(body)
        s == parse_incoterm(subj)
        sb == Or(s, b)
    IN  Or(sb, Str(FOB))

\* incoterm = parse_incoterm(body) or parse_incoterm(subj) or "FOB"
ChooseIncoterm(body, subj) ==
    LET b == parse_incoterm(body)
        s == parse_incoterm(subj)
        bs == Or(b, s)
    IN  Or(bs, Str(FOB))

\* cbm = parse_cbm(body) or parse_cbm(subj)
ChooseCbm(body, subj) ==
    LET b == parse_cbm(body)
        s == parse_cbm(subj)
    IN  Or(b, s)

\* weight = parse_weight_kg(body) or parse_weight_kg(subj)
ChooseWeight(body, subj) ==
    LET b == parse_weight_kg(body)
        s == parse_weight_kg(subj)
    IN  Or(b, s)

\* combined = subj + "\n" + body
Combined(body, subj) == subj \o <<"\n">> \o body

\* dangerous = detect_dangerous(combined)
ChooseDangerous(body, subj) ==
    LET combined == Combined(body, subj) IN detect_dangerous(combined)

\* code_to_name.get(code) if code else None
PortName(c2n, code) ==
    IF Truthy(code) /\ DictHas(c2n, code.s) THEN Str(DictGet(c2n, code.s))
    ELSE None

\* origin = ports[0] if len(ports) >= 1 else None
Origin(ports) == IF Len(ports) >= 1 THEN Str(ports[1]) ELSE None
\* dest = ports[1] if len(ports) >= 2 else None
Dest(ports) == IF Len(ports) >= 2 THEN Str(ports[2]) ELSE None

\* the returned dict, for an email on which rule_extract does not raise
rule_extract(e, name_index, c2n) ==
    LET subj == Get(e, "subject", Str(<<>>)).s
        body == Get(e, "body", Str(<<>>)).s
        body_ports == find_ports_in_text(body, name_index)
        subj_ports == find_ports_in_text(subj, name_index)
        Result(origin, dest) ==
            [ id |-> Get(e, "id", None),
              product_line |-> choose_product_line(origin, dest),
              origin_port_code |-> origin,
              origin_port_name |-> PortName(c2n, origin),
              destination_port_code |-> dest,
              destination_port_name |-> PortName(c2n, dest),
              incoterm |-> ChooseIncoterm(body, subj),
              cargo_weight_kg |-> ChooseWeight(body, subj),
              cargo_cbm |-> ChooseCbm(body, subj),
              is_dangerous |-> Bool(ChooseDangerous(body, subj)) ]
    IN  Only({ Result(Origin(ports), Dest(ports)) :
                   ports \in {ChoosePorts(body_ports, subj_ports)} })

------------------------------------------------------------------------------
(* schemas.py: ExtractionResult *)

Abs(n) == IF n < 0 THEN -n ELSE n
Sign(n) == IF n < 0 THEN -1 ELSE 1

\* round(x, 2) of the decimal m * 10^(-e): to the nearest hundredth, an exact
\* tie to the even one
Round2(v) ==
    IF v.e <= 2 THEN Num(v.m * Pow10(2 - v.e), 2)
    ELSE LET d == Pow10(v.e - 2)
             q == Abs(v.m) \div d
             r == Abs(v.m) % d
             up == 2 * r > d \/ (2 * r = d /\ q % 2 = 1)
         IN  Num(Sign(v.m) * (IF up THEN q + 1 ELSE q), 2)

AllDigits(s) == \A i \in 1..Len(s) : IsDigit(s[i])

\* float(s) of a string, for the literals [-]digits[.digits]; None stands
\* for the ValueError of any other string
StrToFloat(s) ==
    LET neg == Len(s) > 0 /\ s[1] = "-"
        u == IF neg THEN Tail(s) ELSE s
        dots == { i \in 1..Len(u) : u[i] = "." }
    IN  IF dots = {} /\ Len(u) > 0 /\ AllDigits(u)
        THEN Num((IF neg THEN -1 ELSE 1) * DigitsToNat(u), 0)
        ELSE IF Cardinality(dots) = 1
        THEN LET i == CHOOSE i \in dots : TRUE
                 ip == SubSeq(u, 1, i - 1)
                 fp == SubSeq(u, i + 1, Len(u))
             IN  IF Len(ip) > 0 /\ Len(fp) > 0 /\ AllDigits(ip) /\ AllDigits(fp)
                 THEN Num((IF neg THEN -1 ELSE 1) * DigitsToNat(ip \o fp),
                          Len(fp))
                 ELSE None
        ELSE None

\* float(v); None stands for the exception
ToFloat(v) ==
    CASE v.t = "num" -> v
      [] v.t = "bool" -> Num(IF v.b THEN 1 ELSE 0, 0)
      [] v.t = "str" -> StrToFloat(v.s)
      [] OTHER -> None

\* round_weight and round_cbm
round_weight(v) ==
    LET f == ToFloat(v)
    IN  IF v = None THEN None ELSE IF f = None THEN None ELSE Round2(f)

round_cbm(v) ==
    LET f == ToFloat(v)
    IN  IF v = None THEN None ELSE IF f = None THEN None ELSE Round2(f)

\* str.strip()
RECURSIVE Strip(_)
Strip(s) ==
    IF Len(s) > 0 /\ IsSpace(s[1]) THEN Strip(Tail(s))
    ELSE IF Len(s) > 0 /\ IsSpace(s[Len(s)])
    THEN Strip(SubSeq(s, 1, Len(s) - 1))
    ELSE s

RECURSIVE NatToDigits(_)
NatToDigits(n) ==
    IF n < 10 THEN <<Digits[n + 1]>>
    ELSE NatToDigits(n \div 10) \o <<Digits[(n % 10) + 1]>>

\* str(v) of a value that came from JSON
PyStr(v) ==
    CASE v.t = "str" -> v.s
      [] v.t = "bool" -> IF v.b THEN <<"T","r","u","e">>
                         ELSE <<"F","a","l","s","e">>
      [] v.t = "num" ->
            (IF v.m < 0 THEN <<"-">> ELSE <<>>)
                \o NatToDigits(Abs(v.m) \div Pow10(v.e))
                \o (IF v.e = 0 THEN <<>>
                    ELSE <<".">> \o NatToDigits(Abs(v.m) % Pow10(v.e)))
      [] OTHER -> <<"[","]">>

\* norm_incoterm
norm_incoterm(v) ==
    IF v = None THEN None
    ELSE LET s == Upper(Strip(PyStr(v)))
         IN  IF Len(s) > 0 THEN Str(s) ELSE None

\* a field declared str or Optional[str] accepts a string (and None when
\* Optional); the other JSON types are rejected
StrOk(v) == v.t = "str"
OptStrOk(v) == v.t \in {"str", "null"}

TrueWords == { <<"t","r","u","e">>, <<"y","e","s">>, <<"o","n">>,
               <<"1">>, <<"t">>, <<"y">> }
FalseWords == { <<"f","a","l","s","e">>, <<"n","o">>, <<"o","f","f">>,
                <<"0">>, <<"f">>, <<"n">> }

\* the bool field: the coerced value, or None for a validation error
BoolField(v) ==
    CASE v.t = "bool" -> v
      [] v.t = "num" /\ v.e = 0 /\ v.m \in {0, 1} -> Bool(v.m = 1)
      [] v.t = "str" /\ Lower(v.s) \in TrueWords -> Bool(TRUE)
      [] v.t = "str" /\ Lower(v.s) \in FalseWords -> Bool(FALSE)
      [] OTHER -> None

StrFields == {"product_line", "origin_port_code", "origin_port_name",
              "destination_port_code", "destination_port_name"}

\* ExtractionResult(**raw) raises ValidationError
ValidationFails(raw) ==
    \/ "id" \notin DOMAIN raw
    \/ ~StrOk(raw["id"])
    \/ \E f \in StrFields : ~OptStrOk(Get(raw, f, None))
    \/ BoolField(Get(raw, "is_dangerous", Bool(FALSE))) = None

\* ExtractionResult(**raw).dict(), for a raw dict that validates
ExtractionResult(raw) ==
    [ id |-> raw["id"],
      product_line |-> Get(raw, "product_line", None),
      origin_port_code |-> Get(raw, "origin_port_code", None),
      origin_port_name |-> Get(raw, "origin_port_name", None),
      destination_port_code |-> Get(raw, "destination_port_code", None),
      destination_port_name |-> Get(raw, "destination_port_name", None),
      incoterm |-> norm_incoterm(Get(raw, "incoterm", None)),
      cargo_weight_kg |-> round_weight(Get(raw, "cargo_weight_kg", None)),
      cargo_cbm |-> round_cbm(Get(raw, "cargo_cbm", None)),
      is_dangerous |-> BoolField(Get(raw, "is_dangerous", Bool(FALSE))) ]

------------------------------------------------------------------------------
(* extract.py: call_llm's result and the JSON block of the response *)

\* A response text is a sequence of chunks: prose without braces, "{", "}",
\* and the members of a JSON object (the text between a pair of braces that
\* json.loads accepts, given by the dict it denotes).
Prose == [k |-> "prose"]
LBrace == [k |-> "lbrace"]
RBrace == [k |-> "rbrace"]
Members(obj) == [k |-> "members", obj |-> obj]

\* re.search(r"\{[\s\S]*\}", llm_resp): from the first "{" to the last "}"
HasJsonBlock(text) ==
    \E i, j \in 1..Len(text) : i < j /\ text[i] = LBrace /\ text[j] = RBrace

JsonBlock(text) ==
    LET i == CHOOSE i \in 1..Len(text) :
                 text[i] = LBrace /\ \A k \in 1..(i - 1) : text[k] # LBrace
        j == CHOOSE j \in 1..Len(text) :
                 /\ text[j] = RBrace
                 /\ \A k \in (j + 1)..Len(text) : text[k] # RBrace
    IN  SubSeq(text, i, j)

\* json.loads(m.group(0)) raises JSONDecodeError
JsonLoadsRaises(block) ==
    ~ \/ Len(block) = 2
      \/ Len(block) = 3 /\ block[2].k = "members"

EmptyDict == [f \in {} |-> None]

JsonLoads(block) == IF Len(block) = 3 THEN block[2].obj ELSE EmptyDict

------------------------------------------------------------------------------
(* extract.py: main *)

PortRef ==
    << [ code |-> Str(<<"I","N","G","O","A">>),
         name |-> Str(<<"G","o","a">>) ],
       [ code |-> Str(<<"N","O","O","S","L">>),
         name |-> Str(<<"O","s","l","o">>) ],
       [ code |-> Str(<<"I","N","O","K","H">>),
         name |-> Str(<<"O","k","h","a">>) ] >>

PortIndex == build_port_index(PortRef)

\* the body of the try block up to the raw dict: whether it raised, and the
\* raw dict if it did not
TryRaw(is_mock, e, llm_resp) ==
    LET rules == IF rule_extract_raises(e)
                 THEN [raised |-> TRUE, raw |-> EmptyDict]
                 ELSE [ raised |-> FALSE,
                        raw |-> rule_extract(e, PortIndex.n2c, PortIndex.c2n) ]
        block == JsonBlock(llm_resp.s)
    IN  IF ~is_mock /\ Truthy(llm_resp) /\ HasJsonBlock(llm_resp.s)
        THEN IF JsonLoadsRaises(block)
             THEN [raised |-> TRUE, raw |-> EmptyDict]
             ELSE [raised |-> FALSE, raw |-> JsonLoads(block)]
        ELSE rules

\* the keyword arguments of the except block's ExtractionResult(...)
FailureRaw(e) ==
    [ id |-> Get(e, "id", None),
      product_line |-> None,
      origin_port_code |-> None,
      origin_port_name |-> None,
      destination_port_code |-> None,
      destination_port_name |-> None,
      incoterm |-> None,
      cargo_weight_kg |-> None,
      cargo_cbm |-> None,
      is_dangerous |-> Bool(FALSE) ]

\* one pass of the loop body of main, try and except included: the record
\* appended to outputs, or the exception that leaves the except block
Outcome(try, failure) ==
    IF ~try.raised /\ ~ValidationFails(try.raw)
    THEN [uncaught |-> FALSE, record |-> ExtractionResult(try.raw)]
    ELSE IF ValidationFails(failure)
    THEN [uncaught |-> TRUE, record |-> failure]
    ELSE [uncaught |-> FALSE, record |-> ExtractionResult(failure)]

Iteration(is_mock, e, llm_resp) ==
    Only({ Outcome(try, failure) : try \in {TryRaw(is_mock, e, llm_resp)},
                                   failure \in {FailureRaw(e)} })

(* the emails of emails_input.json *)

EmailPool ==
    { [ id |-> Str(<<"e","1">>),
        subject |-> Str(<<"G","o","a"," ","5"," ","k","g">>),
        body |-> Str(<<"O","s","l","o",",","O","k","h","a"," ","c","i","f"," ","0"," ","k","g">>) ],
      [ id |-> Str(<<"e","2">>),
        subject |-> Str(<<"c","l","a","s","s"," ","9">>),
        body |-> Str(<<>>) ],
      [ id |-> Str(<<"e","3">>),
        subject |-> None,
        body |-> Str(<<"G","o","a">>) ],
      [ subject |-> Str(<<"f","o","b">>),
        body |-> Str(<<"O","k","h","a">>) ] }

MaxBatch == 2

RECURSIVE SeqsUpTo(_, _)
SeqsUpTo(S, n) ==
    IF n = 0 THEN {<<>>}
    ELSE SeqsUpTo(S, n - 1)
             \cup { Append(s, x) : s \in SeqsUpTo(S, n - 1), x \in S }

Batches == SeqsUpTo(EmailPool, MaxBatch)

(* what call_llm can return for an email *)

OtherId == Str(<<"z","z">>)

LlmObjects(e) ==
    LET own == IF Get(e, "id", None).t = "str" THEN e.id ELSE OtherId
    IN  { [ id |-> own,
            origin_port_code |-> Str(<<"I","N","G","O","A">>),
            incoterm |-> Str(<<" ","c","i","f"," ">>),
            cargo_weight_kg |-> Num(12375, 3),
            cargo_cbm |-> Str(<<"a","b","c">>),
            is_dangerous |-> Bool(TRUE) ],
          [ id |-> OtherId,
            incoterm |-> Str(<<" "," ">>) ],
          [ id |-> own,
            cargo_weight_kg |-> Num(-5, 0),
            cargo_cbm |-> Str(<<"-","2",".","5">>) ],
          [ id |-> own,
            product_line |-> List ],
          [ incoterm |-> Str(<<"F","O","B">>),
            is_dangerous |-> None ] }

LlmResponses(e) ==
    { None, Str(<<>>), Str(<<Prose>>), Str(<<Prose, LBrace, Prose, RBrace>>),
      Str(<<LBrace, RBrace>>) }
        \cup { Str(<<Prose, LBrace, Members(o), RBrace, Prose>>) :
                   o \in LlmObjects(e) }

MainInit ==
    /\ mock \in BOOLEAN
    /\ emails \in Batches
    /\ pos = 0
    /\ outputs = <<>>
    /\ llm_log = <<>>
    /\ pc = "loop"
    /\ written = <<>>

\* the loop body for the next email; an exception that leaves the except
\* block ends main before output.json is written
LoopStep(llm_resp) ==
    \E it \in {Iteration(mock, emails[pos + 1], llm_resp)} :
        /\ pos' = pos + 1
        /\ llm_log' = Append(llm_log, llm_resp)
        /\ outputs' = IF it.uncaught THEN outputs
                      ELSE Append(outputs, it.record)
        /\ pc' = IF it.uncaught THEN "aborted" ELSE "loop"
        /\ UNCHANGED <<mock, emails, written>>

\* call_llm is not reached under --mock
CallLlm(is_mock, e) == IF is_mock THEN {None} ELSE LlmResponses(e)

LoopIteration ==
    /\ pc = "loop" /\ pos < Len(emails)
    /\ \E r \in CallLlm(mock, emails[pos + 1]) : LoopStep(r)
    /\ UNCHANGED <<indexVars, ruleVars>>

WriteOutput ==
    /\ pc = "loop" /\ pos = Len(emails)
    /\ written' = outputs
    /\ pc' = "done"
    /\ UNCHANGED <<mock, emails, pos, outputs, llm_log>>
    /\ UNCHANGED <<indexVars, ruleVars>>

MainIdle ==
    /\ mock = FALSE /\ emails = <<>> /\ pos = 0 /\ outputs = <<>>
    /\ llm_log = <<>> /\ pc = "idle" /\ written = <<>>

------------------------------------------------------------------------------
(* build_port_index, one reference entry per step *)

EntryPool ==
    { [ code |-> Str(<<"I","N","G","O","A">>),
        name |-> Str(<<"G","o","a"," ","P","o","r","t">>) ],
      [ code |-> Str(<<"X","X","G","O","A">>),
        name |-> Str(<<"g","o","a">>) ],
      [ code |-> Str(<<"A","E","P","R","A">>),
        name |-> Str(<<"P","o","r","t","-","S","a","i","d">>) ],
      [ code |-> None,
        name |-> Str(<<"S","a","i","d">>) ],
      [ code |-> Str(<<"Z","Z","X","X","X">>),
        name |-> Str(<<>>) ] }

MaxRef == 3

IndexInit ==
    /\ ref \in SeqsUpTo(EntryPool, MaxRef)
    /\ ref_pos = 0
    /\ name_to_code = <<>>
    /\ code_to_name = <<>>

IndexStep ==
    LET idx == IndexEntry([n2c |-> name_to_code, c2n |-> code_to_name],
                          ref[ref_pos + 1])
    IN  /\ name_to_code' = idx.n2c
        /\ code_to_name' = idx.c2n
        /\ ref_pos' = ref_pos + 1
        /\ UNCHANGED ref

RegisterEntry ==
    /\ ref_pos < Len(ref) /\ ~EntrySkipped(ref[ref_pos + 1])
    /\ IndexStep
    /\ UNCHANGED <<mainVars, ruleVars>>

SkipEntry ==
    /\ ref_pos < Len(ref) /\ EntrySkipped(ref[ref_pos + 1])
    /\ IndexStep
    /\ UNCHANGED <<mainVars, ruleVars>>

IndexIdle ==
    /\ ref = <<>> /\ ref_pos = 0 /\ name_to_code = <<>> /\ code_to_name = <<>>

------------------------------------------------------------------------------
(* rule_extract on one email, and direct calls of the pure functions *)

MaxFrags == 3

\* the texts made of at most n of the given fragments
RECURSIVE Texts(_, _)
Texts(frags, n) ==
    IF n = 0 THEN {<<>>}
    ELSE Texts(frags, n - 1)
             \cup { t \o f : t \in Texts(frags, n - 1), f \in frags }

IncotermFrags == { <<"f","o","b">>, <<"C","I","F">>, <<" ">>, <<"x">> }
IncotermSubjects ==
    { <<>>, <<"D","a","p">>, <<"c","i","f"," ","f","o","b">> }

CargoFrags == { <<"0">>, <<"5">>, <<"k","g"," ">>, <<"c","b","m">> }
CargoSubjects ==
    { <<>>,
      <<"7"," ","k","g"," ","3"," ","c","b","m">>,
      <<"1","0"," ","l","b","s">>,
      <<"2"," ","t"," ","0"," ","m","3">> }

PortFrags ==
    { <<"G","o","a",",">>, <<"O","s","l","o",",">>,
      <<"O","k","h","a",",">>, <<"x">> }
PortSubjects ==
    { <<>>, <<"O","s","l","o">>,
      <<"O","k","h","a",",","G","a","o">> }

DangerFrags == { <<"n","o","n">>, <<"-">>, <<" ">>, <<"D","G">> }
DangerSubjects ==
    { <<>>,
      <<"N","o","t"," ","d","a","n","g","e","r","o","u","s">>,
      <<"C","l","a","s","s"," ","9">> }

Emails(frags, subjects) ==
    { [id |-> Str(<<"e","1">>), subject |-> Str(s), body |-> Str(b)] :
          s \in subjects, b \in Texts(frags, MaxFrags) }

RuleEmails ==
    Emails(IncotermFrags, IncotermSubjects)
        \cup Emails(CargoFrags, CargoSubjects)
        \cup Emails(PortFrags, PortSubjects)
        \cup Emails(DangerFrags, DangerSubjects)

NoEmail == [none |-> TRUE]
NoRecord == [none |-> TRUE]
NoCall == [fn |-> "none"]

CodeInputs ==
    { None, Str(<<>>),
      Str(<<"I","N","G","O","A">>), Str(<<"i","n","m","a","a">>),
      Str(<<"I","n","N","S","A">>), Str(<<"U","S","L","A","X">>),
      Str(<<"N","O","O","S","L">>), Str(<<"C","N","I","N">>),
      Str(<<"I">>), Str(<<"N","I">>) }

DangerTexts ==
    Texts(DangerFrags, MaxFrags) \cup DangerSubjects
        \cup { <<"c","l","a","s","s","9">>, <<"b","u","d","g","e","t">>,
               <<"I","M","O"," ","n","o","n","h","a","z","a","r","d","o","u","s">> }

RuleInit ==
    /\ email \in RuleEmails \cup {NoEmail}
    /\ rec = NoRecord
    /\ call = NoCall

RuleExtractCall ==
    /\ email # NoEmail /\ rec = NoRecord
    /\ rec' = rule_extract(email, PortIndex.n2c, PortIndex.c2n)
    /\ UNCHANGED <<email, call, mainVars, indexVars>>

ProductLineCall ==
    /\ email = NoEmail /\ call = NoCall
    /\ \E o, d \in CodeInputs :
           call' = [ fn |-> "choose_product_line", origin |-> o, dest |-> d,
                     result |-> choose_product_line(o, d) ]
    /\ UNCHANGED <<email, rec, mainVars, indexVars>>

DetectDangerousCall ==
    /\ email = NoEmail /\ call = NoCall
    /\ \E t \in DangerTexts :
           call' = [ fn |-> "detect_dangerous", text |-> t,
                     result |-> detect_dangerous(t) ]
    /\ UNCHANGED <<email, rec, mainVars, indexVars>>

RuleIdle == email = NoEmail /\ rec = NoRecord /\ call = NoCall

------------------------------------------------------------------------------
(* specifications *)

Init == MainInit /\ IndexIdle /\ RuleIdle
Next == LoopIteration \/ WriteOutput
Spec == Init /\ [][Next]_vars

InitIndex == IndexInit /\ MainIdle /\ RuleIdle
NextIndex == RegisterEntry \/ SkipEntry
SpecIndex == InitIndex /\ [][NextIndex]_vars

InitRule == RuleInit /\ MainIdle /\ IndexIdle
NextRule == RuleExtractCall \/ ProductLineCall \/ DetectDangerousCall
SpecRule == InitRule /\ [][NextRule]_vars

------------------------------------------------------------------------------
(* Claims about rule_extract and the pure functions, under SpecRule *)

Body == email.body.s
Subject == email.subject.s

\* C4: for cargo_weight_kg and cargo_cbm independently, the record carries
\* the body's parsed value whenever the parser returns a non-null value for
\* the body, an explicit zero included, and the subject's value only when
\* the body's parser returns null.
C4_BodyCargoValueWins ==
    rec # NoRecord =>
        /\ rec.cargo_weight_kg =
               IF parse_weight_kg(Body) # None THEN parse_weight_kg(Body)
               ELSE parse_weight_kg(Subject)
        /\ rec.cargo_cbm =
               IF parse_cbm(Body) # None THEN parse_cbm(Body)
               ELSE parse_cbm(Subject)

BodyPorts == find_ports_in_text(Body, PortIndex.n2c)
SubjectPorts == find_ports_in_text(Subject, PortIndex.n2c)

\* C6: the ports come wholesale from the body when the body yields at least
\* one code and from the subject only when it yields none; origin is the
\* first code of that list, destination the second or null, further codes
\* are dropped, and origin and destination are never the same code.
C6_PortsWholesaleFromBody ==
    rec # NoRecord =>
        LET chosen == IF Len(BodyPorts) >= 1 THEN BodyPorts ELSE SubjectPorts
        IN  /\ rec.origin_port_code =
                   IF Len(chosen) >= 1 THEN Str(chosen[1]) ELSE None
            /\ rec.destination_port_code =
                   IF Len(chosen) >= 2 THEN Str(chosen[2]) ELSE None
            /\ rec.origin_port_code # None
                   => rec.origin_port_code # rec.destination_port_code

\* the body yields exactly one code, the subject a different one, and the
\* destination stays null
C6_Witness ==
    /\ rec # NoRecord
    /\ Len(BodyPorts) = 1
    /\ Len(SubjectPorts) >= 1
    /\ SubjectPorts[1] # BodyPorts[1]
    /\ rec.origin_port_code = Str(BodyPorts[1])
    /\ rec.destination_port_code = None

\* the valid incoterms that occur in a text as whole words, in any case
TermsIn(text) == { inc \in VALID_INCOTERMS : SearchWord(Upper(text), inc) }
\* one distinct term decides for itself, several for FOB
Decided(terms) ==
    IF Cardinality(terms) = 1 THEN CHOOSE inc \in terms : TRUE ELSE FOB

\* C7: the body decides the incoterm when it contains a valid term (one
\* distinct term: that term; several: FOB), else the subject by the same
\* rule, else FOB; the result is never null and always a valid incoterm.
C7_IncotermDecision ==
    rec # NoRecord =>
        /\ rec.incoterm =
               Str(IF TermsIn(Body) # {} THEN Decided(TermsIn(Body))
                   ELSE IF TermsIn(Subject) # {} THEN Decided(TermsIn(Subject))
                   ELSE FOB)
        /\ rec.incoterm # None
        /\ rec.incoterm.s \in VALID_INCOTERMS

\* the body holds one term and the subject another one: the body's wins
C7_Witness ==
    /\ rec # NoRecord
    /\ Cardinality(TermsIn(Body)) = 1
    /\ TermsIn(Subject) # {}
    /\ TermsIn(Subject) \cap TermsIn(Body) = {}
    /\ rec.incoterm = Str(Decided(TermsIn(Body)))

NegationPhrases ==
    { <<"n","o","n","-","h","a","z","a","r","d","o","u","s">>,
      <<"n","o","n"," ","h","a","z","a","r","d","o","u","s">>,
      <<"n","o","n","-","d","g">>, <<"n","o","t"," ","d","a","n","g","e","r","o","u","s">>,
      <<"n","o","n"," ","d","g">> }
PositiveKeywords ==
    { <<"d","g">>, <<"d","a","n","g","e","r","o","u","s">>,
      <<"h","a","z","a","r","d","o","u","s">>, <<"i","m","o">>, <<"i","m","d","g">> }
HasNegation(text) ==
    LET low == Lower(text)
    IN  \E n \in NegationPhrases : Contains(low, n)
HasPositive(text) ==
    LET low == Lower(text)
    IN  \/ \E k \in PositiveKeywords : Contains(low, k)
        \/ \E i \in 1..Len(low) :
               /\ OccursAt(low, <<"c","l","a","s","s"," ">>, i)
               /\ i + 6 <= Len(low)
               /\ low[i + 6] \in {"0","1","2","3","4","5","6","7","8","9"}

\* C9: detect_dangerous is false whenever a negation phrase occurs in the
\* lower-cased text, whatever positive keywords occur; true when none occurs
\* and a positive keyword or "class <digit>" matches; false otherwise, the
\* empty text included.  rule_extract applies it to subject, newline, body.
C9_NegationPrecedence ==
    /\ call.fn = "detect_dangerous" =>
           call.result = (~HasNegation(call.text) /\ HasPositive(call.text))
    /\ rec # NoRecord =>
           rec.is_dangerous =
               Bool(/\ ~HasNegation(Subject \o <<"\n">> \o Body)
                    /\ HasPositive(Subject \o <<"\n">> \o Body))

\* an email with a negation phrase and a positive keyword, flagged false
C9_Witness ==
    /\ rec # NoRecord
    /\ HasNegation(Subject \o <<"\n">> \o Body)
    /\ HasPositive(Subject \o <<"\n">> \o Body)
    /\ rec.is_dangerous = Bool(FALSE)

\* the code starts with IN, case-insensitively
IsIndian(code) ==
    /\ code.t = "str"
    /\ Len(code.s) >= 2
    /\ UpperChar(code.s[1]) = "I"
    /\ UpperChar(code.s[2]) = "N"

ProductLineOf(origin, dest) ==
    IF IsIndian(dest) THEN pl_sea_import_lcl
    ELSE IF IsIndian(origin) THEN pl_sea_export_lcl
    ELSE None

\* C10: choose_product_line is import whenever dest starts with IN, whatever
\* origin is; else export when origin starts with IN; else null.  The
\* product_line of rule_extract is this function of its two port codes, so a
\* non-null product_line implies an IN-prefixed code.
C10_ProductLine ==
    /\ call.fn = "choose_product_line" =>
           call.result = ProductLineOf(call.origin, call.dest)
    /\ rec # NoRecord =>
           /\ rec.product_line =
                  ProductLineOf(rec.origin_port_code, rec.destination_port_code)
           /\ rec.product_line # None =>
                  \/ IsIndian(rec.origin_port_code)
                  \/ IsIndian(rec.destination_port_code)

\* a direct call with both codes IN-prefixed, classified as import
C10_Witness ==
    /\ call.fn = "choose_product_line"
    /\ IsIndian(call.origin)
    /\ IsIndian(call.dest)
    /\ call.result = pl_sea_import_lcl

------------------------------------------------------------------------------
(* Claim about build_port_index, under SpecIndex *)

RECURSIVE SeqToSet(_)
SeqToSet(q) == IF q = <<>> THEN {} ELSE {Head(q)} \cup SeqToSet(Tail(q))

\* the keys a valid entry registers: its lower-cased name and the sub-tokens
\* of length >= 2
Registers(entry) ==
    {Lower(entry.name.s)} \cup SeqToSet(SplitTokens(Lower(entry.name.s), 1))

Registrants(key) ==
    { i \in 1..ref_pos : ~EntrySkipped(ref[i]) /\ key \in Registers(ref[i]) }

\* C5: every key of token_to_code maps to the code of the first valid entry,
\* in reference order, that registers it, so no later entry changes it; and
\* entries missing code or name contribute to neither mapping.
C5_FirstRegistrationWins ==
    /\ \A p \in 1..Len(name_to_code) :
           LET regs == Registrants(name_to_code[p][1])
           IN  /\ regs # {}
               /\ name_to_code[p][2] =
                      ref[CHOOSE i \in regs : \A k \in regs : i <= k].code.s
    /\ \A p \in 1..Len(code_to_name) :
           \E i \in 1..ref_pos :
               /\ ~EntrySkipped(ref[i])
               /\ ref[i].code.s = code_to_name[p][1]

------------------------------------------------------------------------------
(* Claims about main, under Spec *)

\* the try block raised for the k-th email: extraction, JSON decoding or
\* validation
Raised(k) ==
    LET try == TryRaw(mock, emails[k], llm_log[k])
    IN  try.raised \/ ValidationFails(try.raw)

\* C1: main never aborts, and when it finishes the output holds one record
\* per input email, in order, the i-th with the id of the i-th email.
C1_OneRecordPerEmail ==
    /\ pc # "aborted"
    /\ pc = "done" =>
           /\ Len(written) = Len(emails)
           /\ \A i \in 1..Len(written) :
                  written[i].id = Get(emails[i], "id", None)

NullRecord(id) ==
    [ id |-> id,
      product_line |-> None,
      origin_port_code |-> None,
      origin_port_name |-> None,
      destination_port_code |-> None,
      destination_port_name |-> None,
      incoterm |-> None,
      cargo_weight_kg |-> None,
      cargo_cbm |-> None,
      is_dangerous |-> Bool(FALSE) ]

\* C2: when extraction or normalization of an email raises, a record is
\* written for it with its id, every optional field null and is_dangerous
\* false, and every other record is what its email yields on its own.
C2_FaultIsolation ==
    /\ \A k \in 1..pos :
           Raised(k) =>
               /\ Len(outputs) >= k
               /\ outputs[k] = NullRecord(Get(emails[k], "id", None))
    /\ \A j \in 1..Len(outputs) :
           outputs[j] = Iteration(mock, emails[j], llm_log[j]).record

\* the rule-based path yields a valid record for the email
RulesApply(e) ==
    /\ ~rule_extract_raises(e)
    /\ ~ValidationFails(rule_extract(e, PortIndex.n2c, PortIndex.c2n))

\* the LLM call failed or returned nothing, or its text holds no parseable
\* JSON object
NoJsonObject(r) ==
    \/ ~Truthy(r)
    \/ ~HasJsonBlock(r.s)
    \/ JsonLoadsRaises(JsonBlock(r.s))

\* C3: in LLM mode, an email whose LLM call fails or returns nothing, or
\* whose response yields no parseable JSON object, gets the normalized
\* result of rule_extract, not an all-null failure record.
C3_FallbackToRules ==
    ~mock =>
        \A k \in 1..pos :
            (NoJsonObject(llm_log[k]) /\ RulesApply(emails[k])) =>
                /\ Len(outputs) >= k
                /\ outputs[k] =
                       ExtractionResult(rule_extract(emails[k], PortIndex.n2c,
                                                     PortIndex.c2n))

IncotermWellFormed(v) ==
    \/ v = None
    \/ /\ v.t = "str"
       /\ Len(v.s) > 0
       /\ Strip(v.s) = v.s
       /\ Upper(v.s) = v.s

NumberWellFormed(v) ==
    \/ v = None
    \/ v.t = "num" /\ v.m >= 0 /\ v.e <= 2

\* C8: every output record is well-formed: is_dangerous a boolean, incoterm
\* null or a non-empty trimmed upper-case string, cargo_weight_kg and
\* cargo_cbm null or a non-negative number rounded to 2 decimal places.
C8_RecordsWellFormed ==
    \A i \in 1..Len(outputs) :
        /\ outputs[i].is_dangerous.t = "bool"
        /\ IncotermWellFormed(outputs[i].incoterm)
        /\ NumberWellFormed(outputs[i].cargo_weight_kg)
        /\ NumberWellFormed(outputs[i].cargo_cbm)

====
